---------------------------- MODULE Spec2Model ----------------------------
(***************************************************************************)
(* Model of the release cache and version resolution of XC_VM_API:         *)
(* helpers/git_releases.py (class GitHubReleases) and the /api/v1/update   *)
(* handler of api.py.                                                      *)
(*                                                                         *)
(* Character strings are sequences of one-character strings, so that the   *)
(* pattern matching, stripping and splitting of the code can be computed.  *)
(* Python's None is a record of its own kind wherever a value is optional. *)
(***************************************************************************)
EXTENDS Integers, Sequences, FiniteSets, TLC

(***************************************************************************)
(* Bounds of the model.                                                    *)
(***************************************************************************)
\* longest release list the upstream answers with
MaxLen == 2
\* number of times the clock advances in one behaviour
MaxTicks == 2
\* number of request threads of the threaded server
NumThreads == 2
\* longest string of the exhaustive run of the version validator
MaxStr == 7
\* longest release list of the exhaustive run of the version resolver
MaxTags == 4

(***************************************************************************)
(* Program constants.                                                      *)
(***************************************************************************)
\* self._cache_ttl
cache_ttl == 1800
\* len(version) > 20
MaxVersionLen == 20
\* {32} of the hash pattern
HashLen == 32

(***************************************************************************)
(* Strings.                                                                *)
(***************************************************************************)
Digit == {"0", "1", "2", "3", "4", "5", "6", "7", "8", "9"}
HexDigit == Digit \cup {"a", "b", "c", "d", "e", "f", "A", "B", "C", "D", "E", "F"}
Whitespace == {" ", "\n", "\t", "\r"}

\* str.lstrip()
RECURSIVE lstrip(_)
lstrip(s) ==
    IF s # <<>> /\ Head(s) \in Whitespace THEN lstrip(Tail(s)) ELSE s

\* str.rstrip()
RECURSIVE rstrip(_)
rstrip(s) ==
    IF s # <<>> /\ s[Len(s)] \in Whitespace
    THEN rstrip(SubSeq(s, 1, Len(s) - 1))
    ELSE s

\* str.strip()
strip(s) == rstrip(lstrip(s))

\* str.split(sep) for a one-character separator
RECURSIVE split(_, _)
split(s, sep) ==
    IF \A k \in 1..Len(s) : s[k] # sep
    THEN <<s>>
    ELSE LET i == CHOOSE k \in 1..Len(s) :
                      s[k] = sep /\ \A j \in 1..(k - 1) : s[j] # sep
         IN  <<SubSeq(s, 1, i - 1)>> \o split(SubSeq(s, i + 1, Len(s)), sep)

\* the text between ^ and $ of  ^v[0-9]+\.[0-9]+\.[0-9]+$
VersionBody(s) ==
    /\ Len(s) >= 6
    /\ s[1] = "v"
    /\ \E i, j \in 3..(Len(s) - 1) :
          /\ i + 1 < j
          /\ s[i] = "."
          /\ s[j] = "."
          /\ \A k \in 2..Len(s) : k \notin {i, j} => s[k] \in Digit

\* re.match(pattern, version): $ matches at the end of the string and also
\* just before a newline that ends the string
VersionPattern(s) ==
    \/ VersionBody(s)
    \/ /\ s # <<>>
       /\ s[Len(s)] = "\n"
       /\ VersionBody(SubSeq(s, 1, Len(s) - 1))

\* int(part) raises ValueError: int() strips whitespace, then wants an
\* optional sign and at least one digit
IntRaises(part) ==
    LET p == strip(part)
        d == IF p # <<>> /\ p[1] \in {"+", "-"} THEN Tail(p) ELSE p
    IN  ~ (d # <<>> /\ \A k \in 1..Len(d) : d[k] \in Digit)

\* int(part) < 0
IntNegative(part) ==
    LET p == strip(part)
    IN  /\ p # <<>>
        /\ p[1] = "-"
        /\ \E k \in 2..Len(p) : p[k] \in Digit \ {"0"}

\* arguments that are not str: None and an int
NonStrings == {<<"None">>, <<"int">>}

\* mutant: the pattern is tested before the length
is_valid_version_pattern_first(version) ==
    IF version \in NonStrings THEN "False"
    ELSE IF ~ VersionPattern(version) THEN "False"
    ELSE IF Len(version) > MaxVersionLen THEN "ValueError"
    ELSE LET parts == split(Tail(version), ".")
         IN  IF \E k \in 1..Len(parts) :
                    parts[k] = <<>> \/ (parts[k][1] = "0" /\ Len(parts[k]) > 1)
             THEN "False"
             ELSE "True"

\* mutant: the length check is missing
is_valid_version_nolen(version) ==
    IF ~ VersionPattern(version) THEN "False"
    ELSE LET parts == split(Tail(version), ".")
         IN  IF \E k \in 1..Len(parts) :
                    parts[k] = <<>> \/ (parts[k][1] = "0" /\ Len(parts[k]) > 1)
             THEN "False"
             ELSE "True"

\* is_valid_version: "True", "False" or "ValueError" (raised)
is_valid_version(version) ==
    IF version \in NonStrings THEN "False"
    ELSE IF Len(version) > MaxVersionLen THEN "ValueError"
    ELSE IF ~ VersionPattern(version) THEN "False"
    ELSE LET parts == split(Tail(version), ".")
         IN  IF Len(parts) # 3 THEN "False"
             ELSE IF \E k \in 1..3 : IntRaises(parts[k]) THEN "False"
             ELSE IF \E k \in 1..3 :
                        \/ IntNegative(parts[k])
                        \/ (parts[k][1] = "0" /\ Len(parts[k]) > 1)
                  THEN "False"
             ELSE "True"

\* mutant: the pattern without its end anchor
HashPattern_prefix(s) ==
    Len(s) >= HashLen /\ \A k \in 1..HashLen : s[k] \in HexDigit

\* re.match(r"^[0-9a-fA-F]{32}$", hash_text)
HashPattern(s) ==
    LET body(x) == Len(x) = HashLen /\ \A k \in 1..Len(x) : x[k] \in HexDigit
    IN  \/ body(s)
        \/ s # <<>> /\ s[Len(s)] = "\n" /\ body(SubSeq(s, 1, Len(s) - 1))

(***************************************************************************)
(* Data: the upstream release list, hash files and changelog documents.    *)
(***************************************************************************)
\* Python's None where an object is expected (self._cache, a return value)
None == [kind |-> "None"]
\* Python's None where a string is expected (a missing "tag_name")
NoneStr == <<"None">>
\* self._cache_timestamp is None
NoTime == -1

V100 == <<"v", "1", ".", "0", ".", "0">>
V101 == <<"v", "1", ".", "0", ".", "1">>
V102 == <<"v", "1", ".", "0", ".", "2">>
\* "1.0": not of the form vX.Y.Z
BadVersion == <<"1", ".", "0">>
\* " v1.0.1\n": a valid version with surrounding whitespace
PaddedVersion == <<" ">> \o V101 \o <<"\n">>
\* "v1.0.1" and a newline
NewlineVersion == V101 \o <<"\n">>
\* 21 characters
LongVersion == <<"v", "1", ".", "0", ".", "0", "0", "0", "0", "0", "0",
                 "0", "0", "0", "0", "0", "0", "0", "0", "0", "0">>

\* UPDATE_ARCHIVE_NAME and the default hash_file_suffix
UPDATE_ARCHIVE_NAME == <<"update.tar.gz">>
Md5Suffix == <<".md5">>

Asset(name) == [name |-> name]
Release(tag, assets) == [tag_name |-> tag, assets |-> assets]

\* the release objects the upstream can list: one with a hash file, one
\* without, one without a "tag_name" key
ReleaseChoices ==
    { Release(V100, <<Asset(UPDATE_ARCHIVE_NAME),
                      Asset(UPDATE_ARCHIVE_NAME \o Md5Suffix)>>),
      Release(V101, <<Asset(UPDATE_ARCHIVE_NAME)>>),
      Release(NoneStr, <<Asset(UPDATE_ARCHIVE_NAME \o Md5Suffix)>>) }

ListBody(items) == [kind |-> "list", items |-> items]
\* a JSON body that is an object, not a list: {"message": "..."}
DictBody == [kind |-> "dict"]

\* response.json() of a 200 answer of the releases endpoint
Bodies ==
    { ListBody(items) :
        items \in UNION { [1..n -> ReleaseChoices] : n \in 0..MaxLen } }
      \cup {DictBody}

\* a request that raises requests.exceptions.RequestException: connection
\* error, timeout, raise_for_status() on a 4xx/5xx.  (A 200 answer whose body
\* is not JSON at all is not among the answers modelled: what response.json()
\* raises for it depends on the version of requests.)
FailureKinds == {"network", "timeout", "status"}

Hex32 == [k \in 1..HashLen |-> IF k % 2 = 0 THEN "d" ELSE "4"]
\* hash_response.text
HashTexts ==
    { Hex32 \o <<"\n">>,
      <<" ">> \o [Hex32 EXCEPT ![3] = "A", ![4] = "f"],
      [Hex32 EXCEPT ![7] = "g"],
      SubSeq(Hex32, 1, HashLen - 1),
      Hex32 \o <<"0">>,
      <<"n", "o", "t", "-", "a", "-", "h", "a", "s", "h">> }

Entry(v) == [version |-> v]
\* response.json() of a 200 answer of the changelog location
ChangelogDocs ==
    { <<>>, <<Entry(V102), Entry(V101), Entry(V100)>>,
      <<Entry(V100), Entry(V102), Entry(V101)>>, <<Entry(V102)>> }
\* status codes of the changelog location other than 200
DocStatuses == {404, 403, 500, 302}

(***************************************************************************)
(* Values an operation hands to its caller.                                *)
(***************************************************************************)
Pending == [kind |-> "pending"]
List(items) == [kind |-> "list", items |-> items]
Str(s) == [kind |-> "str", str |-> s]
Raise(exc) == [kind |-> "raise", exc |-> exc]
Changelog(items) == [kind |-> "changelog", items |-> items]
Http(status, message, md5) ==
    [kind |-> "http", status |-> status, message |-> message, md5 |-> md5]
Bool(b) == [kind |-> "bool", val |-> b]

(***************************************************************************)
(* Answers to the second request of get_asset_hash and get_changelog.      *)
(***************************************************************************)
\* requests.get or raise_for_status raised
Failure == [kind |-> "error"]
\* response.status_code other than 200
Status(status) == [kind |-> "status", status |-> status]
\* hash_response.text
Text(text) == [kind |-> "text", text |-> text]
\* response.json() of the changelog
Doc(doc) == [kind |-> "doc", doc |-> doc]

(***************************************************************************)
(* The pure parts of GitHubReleases.                                       *)
(***************************************************************************)
\* mutant: the boundary second still counts as fresh
within_ttl_le(ts, t_now) == (t_now - ts) <= cache_ttl

\* mutant: the TTL is not consulted, every call refetches
within_ttl_never(ts, t_now) == FALSE

\* mutant: a snapshot never ages
within_ttl_always(ts, t_now) == TRUE

\* time.time() - self._cache_timestamp < self._cache_ttl
within_ttl(ts, t_now) == (t_now - ts) < cache_ttl

\* mutant: the snapshot is never taken to be there
cache_missing_always(c, ts) == TRUE

\* self._cache is None or self._cache_timestamp is None
cache_missing(c, ts) == c.kind = "None" \/ ts = NoTime

\* mutant: the tags come out in the reverse of the order of the snapshot
tag_names_reversed(items) ==
    LET HasTag(release) == release.tag_name \notin {<<"None">>, <<>>}
        kept == SelectSeq(items, HasTag)
    IN  [k \in 1..Len(kept) |-> kept[Len(kept) + 1 - k].tag_name]

\* [release.get("tag_name", "") for release in items if release.get("tag_name")]
RECURSIVE tag_names(_)
tag_names(items) ==
    IF items = <<>> THEN <<>>
    ELSE LET tag == Head(items).tag_name
         IN  IF tag = NoneStr \/ tag = <<>>
             THEN tag_names(Tail(items))
             ELSE <<tag>> \o tag_names(Tail(items))

\* the list comprehension of get_releases over self._cache
releases_of(c) ==
    IF c.kind = "None" THEN Raise("TypeError")
    ELSE IF c.kind = "dict" THEN Raise("AttributeError")
    ELSE List(tag_names(c.items))

\* list.index(x), 0-based, for x in l
RECURSIVE list_index(_, _)
list_index(l, x) ==
    IF Head(l) = x THEN 0 ELSE 1 + list_index(Tail(l), x)

\* mutant: the neighbour on the other side of the list
next_of_older(releases, current_version) ==
    IF \A k \in 1..Len(releases) : releases[k] # current_version
    THEN None
    ELSE LET index == list_index(releases, current_version)
         IN  IF index + 1 < Len(releases)
             THEN Str(releases[(index + 1) + 1]) ELSE None

\* mutant: the position of the last occurrence is taken
next_of_last(releases, current_version) ==
    IF \A k \in 1..Len(releases) : releases[k] # current_version
    THEN None
    ELSE LET last == CHOOSE k \in 1..Len(releases) :
                        /\ releases[k] = current_version
                        /\ \A j \in (k + 1)..Len(releases) :
                              releases[j] # current_version
             index == last - 1
         IN  IF index > 0 THEN Str(releases[(index - 1) + 1]) ELSE None

\* the body of get_next_version after releases = self.get_releases()
next_of(releases, current_version) ==
    IF \A k \in 1..Len(releases) : releases[k] # current_version
    THEN None
    ELSE LET index == list_index(releases, current_version)
         IN  IF index > 0 THEN Str(releases[(index - 1) + 1]) ELSE None

\* releases[0] if releases else None
latest_of(releases) ==
    IF releases # <<>> THEN Str(releases[1]) ELSE None

\* for release in releases: if release.get("tag_name") == version
\* (position of the first such release, 0 if none)
first_release(items, version) ==
    IF \E k \in 1..Len(items) : items[k].tag_name = version
    THEN CHOOSE k \in 1..Len(items) :
             /\ items[k].tag_name = version
             /\ \A j \in 1..(k - 1) : items[j].tag_name # version
    ELSE 0

\* for asset in assets: if asset.get("name") == hash_file_name
\* (position of the first such asset, 0 if none)
first_asset(assets, hash_file_name) ==
    IF \E k \in 1..Len(assets) : assets[k].name = hash_file_name
    THEN CHOOSE k \in 1..Len(assets) :
             /\ assets[k].name = hash_file_name
             /\ \A j \in 1..(k - 1) : assets[j].name # hash_file_name
    ELSE 0

\* the two loops of get_asset_hash over a list of releases: "download" when
\* the hash file is to be fetched, "None" when the release or the hash file
\* is not there
asset_search(items, version, asset_name, hash_file_suffix) ==
    LET r == first_release(items, version)
        hash_file_name == asset_name \o hash_file_suffix
    IN  IF r = 0 THEN "None"
        ELSE IF first_asset(items[r].assets, hash_file_name) = 0 THEN "None"
        ELSE "download"

\* get_asset_hash after the download: hash_text and the pattern test
hash_of(text) ==
    LET hash_text == strip(text)
    IN  IF HashPattern(hash_text) THEN Str(hash_text) ELSE None

\* mutant: no entry is dropped
filter_changelog_all(changelog, valid_versions) == changelog

\* [entry for entry in changelog if entry.get('version') in valid_versions]
RECURSIVE filter_changelog(_, _)
filter_changelog(changelog, valid_versions) ==
    IF changelog = <<>> THEN <<>>
    ELSE IF Head(changelog).version \in valid_versions
         THEN <<Head(changelog)>> \o filter_changelog(Tail(changelog), valid_versions)
         ELSE filter_changelog(Tail(changelog), valid_versions)

\* get_changelog after a 200 answer: release['tag_name'] raises on a
\* release without the key, on the keys of a dict, and on None
changelog_of(releases, changelog) ==
    IF releases.kind = "None" THEN Raise("TypeError")
    ELSE IF releases.kind = "dict" THEN Raise("TypeError")
    ELSE IF \E k \in 1..Len(releases.items) :
                releases.items[k].tag_name = NoneStr
         THEN Raise("KeyError")
    ELSE Changelog(filter_changelog(changelog,
             { releases.items[k].tag_name : k \in 1..Len(releases.items) }))

(***************************************************************************)
(* State.                                                                  *)
(***************************************************************************)
VARIABLES
    cache,            \* self._cache
    cache_timestamp,  \* self._cache_timestamp
    now,              \* time.time()
    ticks,            \* number of clock advances so far
    pc,               \* per thread: where it is in its call
    op,               \* per thread: the operation its caller invoked
    fn,               \* per thread: the GitHubReleases method it is running
    arg,              \* per thread: the version argument
    releases,         \* per thread: the local  releases = self._cache
    next_version,     \* per thread: the local of get_release (api.py)
    result,           \* per thread: what the operation handed to its caller
    seen,             \* per thread: the state _is_cache_valid answered in
                      \* (the snapshot it read until the method replaces it)
    reqs,             \* per thread: release-list requests issued by the method
    failed,           \* per thread: how the release-list request failed
    got,              \* per thread: the body the release-list request returned
    resp,             \* per thread: the answer to the method's second request
                      \* (hash_response, or the response of the changelog)
    cleared,          \* clear_cache completed and no fetch has succeeded since
    discarded,        \* the timestamp that clear_cache discarded
    stored_by         \* the method whose request stored the snapshot

vars == <<cache, cache_timestamp, now, ticks, pc, op, fn, arg, releases,
          next_version, result, seen, reqs, failed, got, resp, cleared,
          discarded, stored_by>>

inst == <<cache, cache_timestamp>>
clock == <<now, ticks>>
marks == <<cleared, discarded, stored_by>>
call == <<op, arg, resp>>

Threads == 1..NumThreads
\* the one worker of a server that handles its requests one at a time
Worker == {1}

\* the clock advances by a second or by a second less than the TTL
TickSteps == {1, cache_ttl - 1}

NotSeen ==
    [cache |-> None, had |-> FALSE, ts |-> NoTime, now |-> 0,
     cleared |-> FALSE]
Seen ==
    [cache |-> cache, had |-> cache.kind # "None", ts |-> cache_timestamp,
     now |-> now, cleared |-> cleared]

\* __init__
Init ==
    /\ cache = None
    /\ cache_timestamp = NoTime
    /\ now = 0
    /\ ticks = 0
    /\ pc = [t \in Threads |-> "idle"]
    /\ op = [t \in Threads |-> "none"]
    /\ fn = [t \in Threads |-> "none"]
    /\ arg = [t \in Threads |-> NoneStr]
    /\ releases = [t \in Threads |-> None]
    /\ next_version = [t \in Threads |-> None]
    /\ result = [t \in Threads |-> Pending]
    /\ seen = [t \in Threads |-> NotSeen]
    /\ reqs = [t \in Threads |-> 0]
    /\ failed = [t \in Threads |-> "no"]
    /\ got = [t \in Threads |-> None]
    /\ resp = [t \in Threads |-> None]
    /\ cleared = FALSE
    /\ discarded = NoTime
    /\ stored_by = "none"

(***************************************************************************)
(* Calls.                                                                  *)
(***************************************************************************)
Start(t, o, f, a, at) ==
    /\ pc[t] = "idle"
    /\ pc' = [pc EXCEPT ![t] = at]
    /\ op' = [op EXCEPT ![t] = o]
    /\ fn' = [fn EXCEPT ![t] = f]
    /\ arg' = [arg EXCEPT ![t] = a]
    /\ UNCHANGED <<inst, clock, marks, releases, next_version, result,
                   seen, reqs, failed, got, resp>>

CallGetReleases(t) ==
    Start(t, "get_releases", "get_releases", NoneStr, "check")

CallGetLatestVersion(t) ==
    Start(t, "get_latest_version", "get_releases", NoneStr, "check")

CallGetNextVersion(t) ==
    \E v \in {V100, V101, V102, BadVersion} :
        Start(t, "get_next_version", "get_releases", v, "check")

CallGetAssetHash(t) ==
    \E v \in {V100, V101, V102, NoneStr} :
        Start(t, "get_asset_hash", "get_asset_hash", v, "check")

CallGetChangelog(t) ==
    Start(t, "get_changelog", "get_changelog", NoneStr, "check")

CallClearCache(t) ==
    Start(t, "clear_cache", "clear_cache", NoneStr, "clear")

\* the  except  clauses of get_release (api.py)
api_except(r) ==
    IF r.exc = "ValueError"
    THEN Http(400, "Invalid version: Version string is too long", None)
    ELSE Http(500, "Internal server error", None)

\* get_release (api.py) up to  next_version = repo.get_next_version(version)
CallGetRelease(t) ==
    \E raw \in {<<>>, V100, PaddedVersion, V102, BadVersion, LongVersion} :
        LET version == strip(raw)
            valid == is_valid_version(version)
        IN  IF raw # <<>> /\ valid = "True"
            THEN Start(t, "get_release", "get_releases", version, "check")
            ELSE /\ pc[t] = "idle"
                 /\ pc' = [pc EXCEPT ![t] = "done"]
                 /\ op' = [op EXCEPT ![t] = "get_release"]
                 /\ arg' = [arg EXCEPT ![t] = version]
                 /\ result' = [result EXCEPT ![t] =
                      IF raw = <<>>
                      THEN Http(400, "Version parameter is required", None)
                      ELSE IF valid = "ValueError"
                      THEN api_except(Raise("ValueError"))
                      ELSE Http(400, "Invalid version format", None)]
                 /\ UNCHANGED <<inst, clock, marks, fn, releases, next_version,
                                seen, reqs, failed, got, resp>>

\* what a caller of the static method is_valid_version gets
validity(version) ==
    LET valid == is_valid_version(version)
    IN  IF valid = "ValueError" THEN Raise("ValueError")
        ELSE Bool(valid = "True")

\* GitHubReleases.is_valid_version(version), called on its own
CallIsValidVersion(t, inputs) ==
    /\ pc[t] = "idle"
    /\ \E version \in inputs :
          /\ arg' = [arg EXCEPT ![t] = version]
          /\ result' = [result EXCEPT ![t] = validity(version)]
    /\ pc' = [pc EXCEPT ![t] = "done"]
    /\ op' = [op EXCEPT ![t] = "is_valid_version"]
    /\ UNCHANGED <<inst, clock, marks, fn, releases, next_version,
                   seen, reqs, failed, got, resp>>

(***************************************************************************)
(* What the caller of a method does with what the method hands back.       *)
(***************************************************************************)
\* the value an Optional[str] takes as an argument
AsArg(r) == IF r.kind = "str" THEN r.str ELSE NoneStr

\* thread t's method hands r back; fl is the mark of its release-list request
FnReturn(t, r, fl) ==
    IF op[t] = "get_release" /\ fn[t] = "get_releases" /\ r.kind # "raise"
    THEN \* next_version = repo.get_next_version(version), then get_asset_hash
         /\ next_version' = [next_version EXCEPT ![t] = next_of(r.items, arg[t])]
         /\ fn' = [fn EXCEPT ![t] = "get_asset_hash"]
         /\ pc' = [pc EXCEPT ![t] = "check"]
         /\ seen' = [seen EXCEPT ![t] = NotSeen]
         /\ reqs' = [reqs EXCEPT ![t] = 0]
         /\ failed' = [failed EXCEPT ![t] = "no"]
         /\ got' = [got EXCEPT ![t] = None]
         /\ UNCHANGED result
    ELSE /\ pc' = [pc EXCEPT ![t] = "done"]
         /\ failed' = [failed EXCEPT ![t] = fl]
         /\ result' = [result EXCEPT ![t] =
              CASE op[t] = "get_latest_version" ->
                     IF r.kind = "list" THEN latest_of(r.items) ELSE r
                [] op[t] = "get_next_version" ->
                     IF r.kind = "list" THEN next_of(r.items, arg[t]) ELSE r
                [] op[t] = "get_release" ->
                     IF r.kind = "raise" THEN api_except(r)
                     ELSE IF next_version[t].kind = "None"
                          THEN Http(400, "Updates not found", None)
                          ELSE Http(200, "success", r)
                [] OTHER -> r]
         /\ UNCHANGED <<fn, next_version, seen, reqs, got>>

(***************************************************************************)
(* _is_cache_valid and the release-list request.                           *)
(***************************************************************************)
\* requests.get(self.api_url, ...) is on its way
Request(t) ==
    /\ pc' = [pc EXCEPT ![t] = "await"]
    /\ seen' = [seen EXCEPT ![t] = Seen]
    /\ reqs' = [reqs EXCEPT ![t] = @ + 1]
    /\ UNCHANGED <<fn, next_version, result, failed, got>>

\* if self._cache is None or self._cache_timestamp is None: return False
CheckNone(t) ==
    /\ pc[t] = "check"
    /\ IF cache_missing(cache, cache_timestamp)
       THEN Request(t)
       ELSE /\ pc' = [pc EXCEPT ![t] = "ttl"]
            /\ UNCHANGED <<fn, next_version, result, seen, reqs, failed, got>>
    /\ UNCHANGED <<inst, clock, marks, call, releases>>

\* return (time.time() - self._cache_timestamp) < self._cache_ttl
CheckTTL(t) ==
    /\ pc[t] = "ttl"
    /\ IF cache_timestamp = NoTime
       THEN FnReturn(t, Raise("TypeError"), failed[t])
       ELSE IF within_ttl(cache_timestamp, now)
       THEN /\ pc' = [pc EXCEPT ![t] = "use"]
            /\ seen' = [seen EXCEPT ![t] = Seen]
            /\ UNCHANGED <<fn, next_version, result, reqs, failed, got>>
       ELSE Request(t)
    /\ UNCHANGED <<inst, clock, marks, call, releases>>

\* mutant: get_releases answers from the snapshot it has
on_fetch_error_stale(f) ==
    CASE f = "get_releases" ->
           IF cache.kind = "list" THEN List(tag_names(cache.items))
           ELSE Raise("RequestException")
      [] f = "get_asset_hash" -> None
      [] OTHER -> Changelog(<<>>)

\* mutant: get_releases swallows the error and answers an empty list
on_fetch_error_empty(f) ==
    CASE f = "get_releases" -> List(<<>>)
      [] f = "get_asset_hash" -> None
      [] OTHER -> Changelog(<<>>)

\* mutant: get_asset_hash lets the error of the request through
on_fetch_error_reraise(f) ==
    CASE f = "get_releases" -> Raise("RequestException")
      [] f = "get_asset_hash" -> Raise("RequestException")
      [] OTHER -> Changelog(<<>>)

\* what the method does when its release-list request raises: get_releases
\* re-raises, get_asset_hash returns None, get_changelog returns []
on_fetch_error(f) ==
    CASE f = "get_releases" -> Raise("RequestException")
      [] f = "get_asset_hash" -> None
      [] OTHER -> Changelog(<<>>)

\* mutant: a failed request throws the snapshot away
FetchFail_discard(t) ==
    /\ pc[t] = "await"
    /\ \E why \in FailureKinds : FnReturn(t, on_fetch_error(fn[t]), why)
    /\ cache' = None
    /\ cache_timestamp' = NoTime
    /\ UNCHANGED <<clock, marks, call, releases>>

\* requests.get / raise_for_status / response.json raise
FetchFail(t) ==
    /\ pc[t] = "await"
    /\ \E why \in FailureKinds : FnReturn(t, on_fetch_error(fn[t]), why)
    /\ UNCHANGED <<inst, clock, marks, call, releases>>

\* self._cache = response.json()
FetchOk(t, answers) ==
    /\ pc[t] = "await"
    /\ \E body \in answers :
          /\ cache' = body
          /\ got' = [got EXCEPT ![t] = body]
    /\ pc' = [pc EXCEPT ![t] = "stamp"]
    /\ seen' = [seen EXCEPT ![t].cache = None]
    /\ cleared' = FALSE
    /\ discarded' = NoTime
    /\ stored_by' = fn[t]
    /\ UNCHANGED <<cache_timestamp, clock, call, fn, releases,
                   next_version, result, reqs, failed>>

\* mutant: only a get_releases called on its own stamps the snapshot
Stamp_own(t) ==
    /\ pc[t] = "stamp"
    /\ cache_timestamp' = IF fn[t] = op[t] /\ fn[t] = "get_releases"
                          THEN now ELSE cache_timestamp
    /\ pc' = [pc EXCEPT ![t] = "use"]
    /\ UNCHANGED <<cache, clock, marks, call, fn, releases, next_version,
                   result, seen, reqs, failed, got>>

\* self._cache_timestamp = time.time()
Stamp(t) ==
    /\ pc[t] = "stamp"
    /\ cache_timestamp' = now
    /\ pc' = [pc EXCEPT ![t] = "use"]
    /\ UNCHANGED <<cache, clock, marks, call, fn, releases, next_version,
                   result, seen, reqs, failed, got>>

(***************************************************************************)
(* The methods after the cache is valid or refreshed.                      *)
(***************************************************************************)
\* mutant: a read renews the timestamp of the snapshot
UseReleases_touch(t) ==
    /\ pc[t] = "use"
    /\ fn[t] = "get_releases"
    /\ cache_timestamp' = now
    /\ FnReturn(t, releases_of(cache), failed[t])
    /\ UNCHANGED <<cache, clock, marks, call, releases>>

\* get_releases: the list comprehension over self._cache
UseReleases(t) ==
    /\ pc[t] = "use"
    /\ fn[t] = "get_releases"
    /\ FnReturn(t, releases_of(cache), failed[t])
    /\ UNCHANGED <<inst, clock, marks, call, releases>>

\* get_asset_hash: releases = self._cache and the two loops
UseAssetHash(t) ==
    /\ pc[t] = "use"
    /\ fn[t] = "get_asset_hash"
    /\ releases' = [releases EXCEPT ![t] = cache]
    /\ LET version == IF op[t] = "get_release"
                      THEN AsArg(next_version[t]) ELSE arg[t]
       IN  IF cache.kind = "None"
           THEN FnReturn(t, Raise("TypeError"), failed[t])
           ELSE IF cache.kind = "dict"
           THEN FnReturn(t, Raise("AttributeError"), failed[t])
           ELSE IF asset_search(cache.items, version,
                                UPDATE_ARCHIVE_NAME, Md5Suffix) = "download"
           THEN /\ pc' = [pc EXCEPT ![t] = "hash"]
                /\ UNCHANGED <<fn, next_version, result, seen, reqs, failed, got>>
           ELSE FnReturn(t, None, failed[t])
    /\ UNCHANGED <<inst, clock, marks, call>>

\* the download of the hash file raises (also from raise_for_status)
HashFail(t) ==
    /\ pc[t] = "hash"
    /\ resp' = [resp EXCEPT ![t] = Failure]
    /\ FnReturn(t, None, failed[t])
    /\ UNCHANGED <<inst, clock, marks, op, arg, releases>>

\* the download of the hash file answers
HashOk(t) ==
    /\ pc[t] = "hash"
    /\ \E text \in HashTexts :
          /\ resp' = [resp EXCEPT ![t] = Text(text)]
          /\ FnReturn(t, hash_of(text), failed[t])
    /\ UNCHANGED <<inst, clock, marks, op, arg, releases>>

\* get_changelog: releases = self._cache, then the changelog request
UseChangelog(t) ==
    /\ pc[t] = "use"
    /\ fn[t] = "get_changelog"
    /\ releases' = [releases EXCEPT ![t] = cache]
    /\ pc' = [pc EXCEPT ![t] = "doc"]
    /\ UNCHANGED <<inst, clock, marks, call, fn, next_version, result,
                   seen, reqs, failed, got>>

\* the changelog request raises
DocFail(t) ==
    /\ pc[t] = "doc"
    /\ resp' = [resp EXCEPT ![t] = Failure]
    /\ FnReturn(t, Changelog(<<>>), failed[t])
    /\ UNCHANGED <<inst, clock, marks, op, arg, releases>>

\* the changelog location answers with a status other than 200
DocStatus(t) ==
    /\ pc[t] = "doc"
    /\ \E status \in DocStatuses :
          /\ resp' = [resp EXCEPT ![t] = Status(status)]
          /\ FnReturn(t, Changelog(<<>>), failed[t])
    /\ UNCHANGED <<inst, clock, marks, op, arg, releases>>

\* the changelog location answers 200 with a document
DocOk(t) ==
    /\ pc[t] = "doc"
    /\ \E doc \in ChangelogDocs :
          /\ resp' = [resp EXCEPT ![t] = Doc(doc)]
          /\ FnReturn(t, changelog_of(releases[t], doc), failed[t])
    /\ UNCHANGED <<inst, clock, marks, op, arg, releases>>

(***************************************************************************)
(* clear_cache.                                                            *)
(***************************************************************************)
\* mutant: the snapshot is left in place
Clear1_keep(t) ==
    /\ pc[t] = "clear"
    /\ discarded' = cache_timestamp
    /\ pc' = [pc EXCEPT ![t] = "clear2"]
    /\ UNCHANGED <<inst, clock, cleared, stored_by, call, fn, releases,
                   next_version, result, seen, reqs, failed, got>>

\* self._cache = None
Clear1(t) ==
    /\ pc[t] = "clear"
    /\ cache' = None
    /\ discarded' = cache_timestamp
    /\ stored_by' = "none"
    /\ pc' = [pc EXCEPT ![t] = "clear2"]
    /\ UNCHANGED <<cache_timestamp, clock, cleared, call, fn, releases,
                   next_version, result, seen, reqs, failed, got>>

\* mutant: the timestamp is left in place
Clear2_keep(t) ==
    /\ pc[t] = "clear2"
    /\ cleared' = TRUE
    /\ FnReturn(t, None, failed[t])
    /\ UNCHANGED <<inst, clock, discarded, stored_by, call, releases>>

\* self._cache_timestamp = None
Clear2(t) ==
    /\ pc[t] = "clear2"
    /\ cache_timestamp' = NoTime
    /\ cleared' = TRUE
    /\ FnReturn(t, None, failed[t])
    /\ UNCHANGED <<cache, clock, discarded, stored_by, call, releases>>

(***************************************************************************)
(* The caller takes the result; the clock.                                 *)
(***************************************************************************)
Return(t) ==
    /\ pc[t] = "done"
    /\ pc' = [pc EXCEPT ![t] = "idle"]
    /\ op' = [op EXCEPT ![t] = "none"]
    /\ fn' = [fn EXCEPT ![t] = "none"]
    /\ arg' = [arg EXCEPT ![t] = NoneStr]
    /\ releases' = [releases EXCEPT ![t] = None]
    /\ next_version' = [next_version EXCEPT ![t] = None]
    /\ result' = [result EXCEPT ![t] = Pending]
    /\ seen' = [seen EXCEPT ![t] = NotSeen]
    /\ reqs' = [reqs EXCEPT ![t] = 0]
    /\ failed' = [failed EXCEPT ![t] = "no"]
    /\ got' = [got EXCEPT ![t] = None]
    /\ resp' = [resp EXCEPT ![t] = None]
    /\ UNCHANGED <<inst, clock, marks>>

Tick ==
    /\ ticks < MaxTicks
    /\ \E d \in TickSteps : now' = now + d
    /\ ticks' = ticks + 1
    /\ UNCHANGED <<inst, marks, pc, op, fn, arg, releases, next_version,
                   result, seen, reqs, failed, got, resp>>

(***************************************************************************)
(* Specifications.                                                         *)
(***************************************************************************)
Step(t) ==
    \/ CallGetReleases(t)
    \/ CallGetLatestVersion(t)
    \/ CallGetNextVersion(t)
    \/ CallGetAssetHash(t)
    \/ CallGetChangelog(t)
    \/ CallClearCache(t)
    \/ CallGetRelease(t)
    \/ CallIsValidVersion(t, {V100, NewlineVersion, LongVersion, NoneStr})
    \/ CheckNone(t)
    \/ CheckTTL(t)
    \/ FetchFail(t)
    \/ FetchOk(t, Bodies)
    \/ Stamp(t)
    \/ UseReleases(t)
    \/ UseAssetHash(t)
    \/ HashFail(t)
    \/ HashOk(t)
    \/ UseChangelog(t)
    \/ DocFail(t)
    \/ DocStatus(t)
    \/ DocOk(t)
    \/ Clear1(t)
    \/ Clear2(t)
    \/ Return(t)

\* one worker that handles its requests one after the other
Next == (\E t \in Worker : Step(t)) \/ Tick
Spec == Init /\ [][Next]_vars

\* the release lists of at most one release
ShortBodies == { b \in Bodies : b.kind = "list" /\ Len(b.items) <= 1 }

\* the cache operations as the threads of a threaded server run them
CacheStep(t) ==
    \/ CallGetReleases(t)
    \/ CallClearCache(t)
    \/ CheckNone(t)
    \/ CheckTTL(t)
    \/ FetchFail(t)
    \/ FetchOk(t, ShortBodies)
    \/ Stamp(t)
    \/ UseReleases(t)
    \/ Clear1(t)
    \/ Clear2(t)
    \/ Return(t)

\* a threaded server: the calls of the threads interleave
ConcNext == (\E t \in Threads : CacheStep(t)) \/ Tick
ConcSpec == Init /\ [][ConcNext]_vars

\* the characters the validator's arguments are made of
VersionAlphabet == {"v", "0", "1", ".", "\n"}

\* every string of at most n characters
Strings(n) == UNION { [1..k -> VersionAlphabet] : k \in 0..n }

\* strings of more than 20 characters: a short string and a run of one
\* character that takes it to 21 or 22
LongStrings ==
    { s \o [k \in 1..(MaxVersionLen + extra - Len(s)) |-> c] :
        s \in Strings(MaxStr - 2), c \in VersionAlphabet, extra \in {1, 2} }

ValidatorInputs == Strings(MaxStr) \cup LongStrings \cup NonStrings

\* a caller that does nothing but validate version arguments
ValidatorNext ==
    \E t \in Worker :
        \/ CallIsValidVersion(t, ValidatorInputs)
        \/ Return(t)
ValidatorSpec == Init /\ [][ValidatorNext]_vars

\* one caller after another reads the release list or clears the cache
LiveNext == (\E t \in Worker : CacheStep(t)) \/ Tick

\* a call that has begun runs to its end; reads keep being issued; of the
\* requests that keep being made, one is answered successfully
LiveFairness ==
    \A t \in Worker :
        /\ WF_vars(CheckNone(t))
        /\ WF_vars(CheckTTL(t))
        /\ WF_vars(Stamp(t))
        /\ WF_vars(UseReleases(t))
        /\ WF_vars(Clear1(t))
        /\ WF_vars(Clear2(t))
        /\ WF_vars(Return(t))
        /\ SF_vars(CallGetReleases(t))
        /\ SF_vars(FetchOk(t, ShortBodies))
LiveSpec == Init /\ [][LiveNext]_vars /\ LiveFairness

\* a release with the update archive and its hash file
FullRelease(tag) ==
    Release(tag, <<Asset(UPDATE_ARCHIVE_NAME),
                   Asset(UPDATE_ARCHIVE_NAME \o Md5Suffix)>>)

\* every release list of at most MaxTags releases over three tags, in any
\* order and with repetitions
TagLists ==
    UNION { [1..k -> {FullRelease(V100), FullRelease(V101), FullRelease(V102)}] :
              k \in 0..MaxTags }

\* a release list has just been fetched and stored by get_releases
ResolverInit ==
    /\ \E items \in TagLists : cache = ListBody(items)
    /\ cache_timestamp = 0
    /\ now = 0
    /\ ticks = 0
    /\ pc = [t \in Threads |-> "idle"]
    /\ op = [t \in Threads |-> "none"]
    /\ fn = [t \in Threads |-> "none"]
    /\ arg = [t \in Threads |-> NoneStr]
    /\ releases = [t \in Threads |-> None]
    /\ next_version = [t \in Threads |-> None]
    /\ result = [t \in Threads |-> Pending]
    /\ seen = [t \in Threads |-> NotSeen]
    /\ reqs = [t \in Threads |-> 0]
    /\ failed = [t \in Threads |-> "no"]
    /\ got = [t \in Threads |-> None]
    /\ resp = [t \in Threads |-> None]
    /\ cleared = FALSE
    /\ discarded = NoTime
    /\ stored_by = "get_releases"

\* get_next_version and the update handler over the stored list
ResolverNext ==
    \E t \in Worker :
        \/ CallGetNextVersion(t)
        \/ CallGetRelease(t)
        \/ CheckNone(t)
        \/ CheckTTL(t)
        \/ UseReleases(t)
        \/ UseAssetHash(t)
        \/ HashFail(t)
        \/ HashOk(t)
        \/ Return(t)
ResolverSpec == ResolverInit /\ [][ResolverNext]_vars

(***************************************************************************)
(* Properties.                                                             *)
(***************************************************************************)
Done(t, o) == pc[t] = "done" /\ op[t] = o

\* the release-list reads
Reads == {"get_releases", "get_latest_version", "get_next_version"}

\* _is_cache_valid had a snapshot that was younger than the TTL
SawFresh(t) ==
    seen[t].had /\ seen[t].ts # NoTime /\ seen[t].now - seen[t].ts < 1800

\* C1: single-flight refresh: at no time are two release-list requests of one
\* stale window in flight; a second caller waits for the first one's result.
C1_SingleFlight ==
    Cardinality({ t \in Threads : pc[t] = "await" }) <= 1

\* C2: a get_releases that finds a snapshot younger than 1800 s issues no
\* request and answers from it; otherwise (an age of exactly 1800 s included,
\* or no snapshot) it issues exactly one request, and when that succeeds the
\* snapshot is the body received, the timestamp is the time of the store and
\* the answer is computed from the new snapshot.
C2_TTLBoundary ==
    \A t \in Threads :
        Done(t, "get_releases") =>
            IF SawFresh(t)
            THEN /\ reqs[t] = 0
                 /\ cache = seen[t].cache
                 /\ cache_timestamp = seen[t].ts
                 /\ result[t] = releases_of(seen[t].cache)
            ELSE /\ reqs[t] = 1
                 /\ failed[t] = "no" =>
                      /\ cache = got[t]
                      /\ cache_timestamp >= seen[t].now
                      /\ cache_timestamp <= now
                      /\ result[t] = releases_of(got[t])

C2_Witness ==
    \E t \in Threads :
        /\ Done(t, "get_releases")
        /\ seen[t].had
        /\ seen[t].now - seen[t].ts = 1800
        /\ reqs[t] = 1
        /\ failed[t] = "no"
        /\ result[t].kind = "list"
        /\ result[t].items # <<>>

\* C3 as stated: a read whose request fails while a snapshot is present
\* answers from that snapshot.
C3_StaleServesReads ==
    \A t \in Threads :
        (Done(t, "get_releases") /\ failed[t] # "no" /\ seen[t].had)
            => result[t] = releases_of(seen[t].cache)

\* C3 amended: a read whose request fails raises the fetch error to its
\* caller, with a stale snapshot as with none; the stale snapshot stays in the
\* cache but is not what the caller gets.
C3_FetchErrorReachesCaller ==
    \A t \in Threads :
        (pc[t] = "done" /\ op[t] \in Reads /\ failed[t] # "no")
            => /\ result[t] = Raise("RequestException")
               /\ seen[t].had => cache = seen[t].cache

C3_Witness ==
    \E t \in Threads :
        /\ Done(t, "get_next_version")
        /\ failed[t] # "no"
        /\ seen[t].had
        /\ seen[t].now - seen[t].ts >= 1800
        /\ cache.kind = "list"
        /\ arg[t] \in { cache.items[k].tag_name : k \in 1..Len(cache.items) }
        /\ result[t].kind = "raise"

\* C4: a release-list request that fails by a network error, a timeout or an
\* error status, in get_releases, get_asset_hash or get_changelog, leaves the
\* snapshot and its timestamp as they were before the call.
C4_FailureKeepsSnapshot ==
    \A t \in Threads :
        (/\ pc[t] = "done"
         /\ fn[t] \in {"get_releases", "get_asset_hash", "get_changelog"}
         /\ failed[t] \in {"network", "timeout", "status"})
            => /\ cache = seen[t].cache
               /\ cache_timestamp = seen[t].ts

C4_Witness ==
    \E t \in Threads :
        /\ Done(t, "get_changelog")
        /\ failed[t] = "timeout"
        /\ seen[t].had
        /\ cache.kind = "list"
        /\ cache.items # <<>>
        /\ cache_timestamp # NoTime

\* C5: a 200 answer whose body is not a list of releases is a fetch failure:
\* the body is not stored and get_releases reports a fetch error.
C5_MalformedIsFailure ==
    \A t \in Threads :
        got[t].kind = "dict" =>
            /\ cache.kind # "dict"
            /\ Done(t, "get_releases") => result[t] = Raise("RequestException")

\* C6: clear_cache leaves neither snapshot nor timestamp, and the read that
\* follows it issues a request, whatever age the discarded snapshot had.
C6_ClearForcesRefetch ==
    /\ \A t \in Threads :
          Done(t, "clear_cache") =>
              cache.kind = "None" /\ cache_timestamp = NoTime
    /\ \A t \in Threads :
          (pc[t] = "done" /\ op[t] \in Reads /\ seen[t].cleared) => reqs[t] = 1

C6_Witness ==
    \E t \in Threads :
        /\ Done(t, "get_releases")
        /\ seen[t].cleared
        /\ reqs[t] = 1
        /\ discarded # NoTime
        /\ seen[t].now - discarded < 1800

\* C7: after clear_cache and a failed request the cache is still empty and
\* get_next_version raises the fetch error: no answer from the discarded
\* snapshot, and no NotFound.
C7_ClearThenFailure ==
    \A t \in Threads :
        (Done(t, "get_next_version") /\ seen[t].cleared /\ failed[t] # "no")
            => /\ cache.kind = "None"
               /\ cache_timestamp = NoTime
               /\ result[t].kind = "raise"
               /\ result[t].exc = "RequestException"

C7_Witness ==
    \E t \in Threads :
        /\ Done(t, "get_next_version")
        /\ seen[t].cleared
        /\ failed[t] # "no"
        /\ discarded # NoTime
        /\ result[t].kind = "raise"

\* the tags of the snapshot, in its order
SnapshotTags == tag_names(cache.items)

\* C8: get_next_version(t) is None when t is not in the tag list or first
\* occurs at position 0, and otherwise the tag just before the first
\* occurrence of t.
C8_Successor ==
    \A t \in Threads :
        (Done(t, "get_next_version") /\ result[t].kind # "raise") =>
            LET L == SnapshotTags
                occ == { k \in 1..Len(L) : L[k] = arg[t] }
            IN  IF occ = {} THEN result[t].kind = "None"
                ELSE LET i == CHOOSE k \in occ : \A j \in occ : k <= j
                     IN  IF i = 1 THEN result[t].kind = "None"
                         ELSE /\ result[t].kind = "str"
                              /\ result[t].str = L[i - 1]

C8_Witness ==
    \E t \in Threads :
        /\ Done(t, "get_next_version")
        /\ result[t].kind = "str"
        /\ Len(SnapshotTags) = 2
        /\ SnapshotTags[2] = arg[t]
        /\ result[t].str = SnapshotTags[1]

\* C9 as stated: get_next_version answers a malformed version with something
\* other than the NotFound it gives for an absent one.
C9_ResolverValidates ==
    \A t \in Threads :
        (Done(t, "get_next_version") /\ arg[t] = BadVersion
            /\ result[t].kind # "raise") => result[t].kind # "None"

\* C9 amended: the validation is done by get_release before it resolves: a
\* malformed or oversized version gets a validation message of its own and no
\* release-list request, "Updates not found" is only said of a well-formed
\* version, and get_next_version itself answers None to a malformed one.
C9_HandlerValidates ==
    \A t \in Threads :
        /\ Done(t, "get_release") =>
              /\ arg[t] = BadVersion =>
                    /\ result[t].message = "Invalid version format"
                    /\ fn[t] = "none"
              /\ arg[t] = LongVersion =>
                    /\ result[t].message =
                          "Invalid version: Version string is too long"
                    /\ fn[t] = "none"
              /\ result[t].message = "Updates not found" =>
                    arg[t] \in {V100, V101, V102}
        /\ (Done(t, "get_next_version") /\ arg[t] = BadVersion
               /\ result[t].kind # "raise") => result[t].kind = "None"

C9_Witness ==
    \E t \in Threads :
        /\ Done(t, "get_release")
        /\ arg[t] = LongVersion
        /\ result[t].status = 400

\* C10 as stated: every get_asset_hash issues a release-list request.
C10_AlwaysFetches ==
    \A t \in Threads : Done(t, "get_asset_hash") => reqs[t] >= 1

\* C10 amended: get_asset_hash issues a release-list request only when there
\* is no snapshot or the snapshot is 1800 s old or older; with a younger
\* snapshot it issues none and searches that snapshot.
C10_FetchesWhenInvalid ==
    \A t \in Threads :
        Done(t, "get_asset_hash") =>
            /\ reqs[t] = IF SawFresh(t) THEN 0 ELSE 1
            /\ SawFresh(t) => cache = seen[t].cache

C10_Witness ==
    \E t \in Threads :
        /\ Done(t, "get_asset_hash")
        /\ SawFresh(t)
        /\ reqs[t] = 0
        /\ result[t].kind = "str"


\* C11 as stated: every get_changelog that answers from a changelog document
\* has issued a release-list request of its own.
C11_ChangelogAlwaysFetches ==
    \A t \in Threads :
        (Done(t, "get_changelog") /\ resp[t].kind = "doc") => reqs[t] >= 1

\* C11 amended: get_changelog issues a release-list request only when there
\* is no snapshot or the snapshot is 1800 s old or older; with a younger
\* snapshot it issues none and filters the document against that snapshot.
C11_ChangelogFetchesWhenInvalid ==
    \A t \in Threads :
        Done(t, "get_changelog") =>
            /\ reqs[t] = IF SawFresh(t) THEN 0 ELSE 1
            /\ SawFresh(t) =>
                  /\ releases[t] = seen[t].cache
                  /\ cache = seen[t].cache
            /\ (resp[t].kind = "doc" /\ result[t].kind = "changelog") =>
                  \A k \in 1..Len(result[t].items) :
                      \E i \in 1..Len(releases[t].items) :
                          releases[t].items[i].tag_name
                              = result[t].items[k].version

C11_Witness ==
    \E t \in Threads :
        /\ Done(t, "get_changelog")
        /\ SawFresh(t)
        /\ reqs[t] = 0
        /\ resp[t].kind = "doc"
        /\ result[t].kind = "changelog"
        /\ result[t].items # <<>>


\* C12: over a release-list snapshot, get_asset_hash returns a hash exactly
\* when the snapshot has a release whose tag is the version, that release has
\* an asset named asset name + suffix, and the downloaded text, trimmed, is 32
\* hexadecimal characters of either case; the hash is the trimmed text, and
\* in every other case the result is None.
C12_HashIff ==
    \A t \in Threads :
        (Done(t, "get_asset_hash") /\ releases[t].kind # "dict") =>
            LET snap == releases[t]
                found ==
                    /\ snap.kind = "list"
                    /\ \E i \in 1..Len(snap.items) :
                          /\ snap.items[i].tag_name = arg[t]
                          /\ \E a \in 1..Len(snap.items[i].assets) :
                                snap.items[i].assets[a].name
                                    = UPDATE_ARCHIVE_NAME \o Md5Suffix
                text == IF resp[t].kind = "text"
                        THEN strip(resp[t].text) ELSE <<>>
                good ==
                    /\ found
                    /\ resp[t].kind = "text"
                    /\ Len(text) = 32
                    /\ \A k \in 1..Len(text) : text[k] \in HexDigit
            IN  /\ found <=> resp[t].kind \in {"text", "error"}
                /\ IF good THEN result[t] = Str(text)
                           ELSE result[t].kind = "None"

C12_Witness ==
    \E t \in Threads :
        /\ Done(t, "get_asset_hash")
        /\ resp[t].kind = "text"
        /\ resp[t].text # strip(resp[t].text)
        /\ \E k \in 1..Len(resp[t].text) : resp[t].text[k] = "A"
        /\ result[t] = Str(strip(resp[t].text))


\* C13: the sequence get_changelog returns for a changelog document is the
\* sub-sequence of the document's entries whose version is a tag of the
\* snapshot, in the document's order: every such entry is kept, every other
\* one is dropped.
C13_ChangelogFilter ==
    \A t \in Threads :
        (Done(t, "get_changelog") /\ resp[t].kind = "doc"
            /\ result[t].kind = "changelog") =>
            LET tags == { releases[t].items[i].tag_name :
                            i \in 1..Len(releases[t].items) }
                IsTagged(entry) == entry.version \in tags
            IN  result[t].items = SelectSeq(resp[t].doc, IsTagged)

C13_Witness ==
    \E t \in Threads :
        /\ Done(t, "get_changelog")
        /\ resp[t].kind = "doc"
        /\ result[t].kind = "changelog"
        /\ Len(result[t].items) = 2
        /\ Len(resp[t].doc) > 2
        /\ result[t].items[1].version = releases[t].items[2].tag_name
        /\ result[t].items[2].version = releases[t].items[1].tag_name


\* C14 as stated: over a release-list snapshot get_changelog never raises:
\* whatever the releases and the changelog location answer, the caller gets
\* a sequence, and an empty one when the request for the document raised or
\* its status is not 200.
C14_ChangelogNeverRaises ==
    \A t \in Threads :
        (Done(t, "get_changelog") /\ releases[t].kind # "dict") =>
            /\ result[t].kind = "changelog"
            /\ resp[t].kind \in {"error", "status"} => result[t].items = <<>>
            /\ failed[t] # "no" => result[t].items = <<>>


\* vX.Y.Z: "v", then three runs of digits separated by dots, none empty and
\* none with a zero in front of another digit
WellFormed(s) ==
    /\ s # <<>>
    /\ s[1] = "v"
    /\ LET parts == split(Tail(s), ".")
       IN  /\ Len(parts) = 3
           /\ \A k \in 1..3 :
                 /\ parts[k] # <<>>
                 /\ \A i \in 1..Len(parts[k]) : parts[k][i] \in Digit
                 /\ parts[k][1] = "0" => Len(parts[k]) = 1

\* C15 as stated: for a string of at most 20 characters is_valid_version is
\* true exactly when the string is vX.Y.Z without leading zeros, and false
\* for every other one, a well-formed version followed by a newline included.
C15_ExactlyWellFormed ==
    \A t \in Threads :
        (Done(t, "is_valid_version") /\ arg[t] \notin NonStrings
            /\ Len(arg[t]) <= 20) =>
            result[t] = Bool(WellFormed(arg[t]))


\* C16: is_valid_version raises the length error for every string of more
\* than 20 characters, whether or not it has the form of a version, and
\* answers false without raising for an argument that is not a string; it
\* raises for nothing else.
C16_LengthBeforePattern ==
    \A t \in Threads :
        Done(t, "is_valid_version") =>
            /\ arg[t] \in NonStrings => result[t] = Bool(FALSE)
            /\ arg[t] \notin NonStrings =>
                  (result[t] = Raise("ValueError") <=> Len(arg[t]) > 20)
            /\ result[t].kind \in {"bool", "raise"}

\* a string of more than 20 characters that does not start like a version
C16_Witness ==
    \E t \in Threads :
        /\ Done(t, "is_valid_version")
        /\ Len(arg[t]) > 20
        /\ arg[t][1] # "v"
        /\ result[t] = Raise("ValueError")


\* a thread is between the validity check and the use of self._cache
Reading(t) == pc[t] \in {"check", "ttl", "use"}

\* C17 as stated: with the calls of several threads interleaved, the snapshot
\* and its timestamp change as one (no thread reads while only one of the two
\* is set), and no get_releases fails because another thread cleared or
\* replaced the cache between its validity check and its use of the cache.
C17_AtomicCache ==
    /\ \A t \in Threads :
          Done(t, "get_releases") => result[t] # Raise("TypeError")
    /\ (\E t \in Threads : Reading(t)) =>
          (cache.kind = "None" <=> cache_timestamp = NoTime)


\* C18: the list get_releases returns is the tag names of the snapshot in
\* the snapshot's order, without the releases whose tag name is missing or
\* empty, and the snapshot is the body as upstream sent it.
C18_UpstreamOrder ==
    \A t \in Threads :
        (Done(t, "get_releases") /\ result[t].kind = "list") =>
            LET HasTag(release) == release.tag_name \notin {NoneStr, <<>>}
                kept == SelectSeq(cache.items, HasTag)
            IN  /\ Len(result[t].items) = Len(kept)
                /\ \A k \in 1..Len(kept) :
                      result[t].items[k] = kept[k].tag_name
                /\ got[t].kind # "None" => cache = got[t]

\* the older release first: the order is upstream's, not newest first
C18_Witness ==
    \E t \in Threads :
        /\ Done(t, "get_releases")
        /\ result[t] = List(<<V100, V101>>)
        /\ cache.items[1].tag_name = V100
        /\ cache.items[2].tag_name = V101


\* a step that changes the snapshot or its timestamp is one of: a method
\* stores the body of its successful release-list request as the snapshot,
\* stamps it, or clear_cache resets the one or the other
CacheWrittenBy(t) ==
    \/ /\ pc[t] = "await"
       /\ pc'[t] = "stamp"
       /\ cache' = got'[t]
       /\ cache_timestamp' = cache_timestamp
    \/ /\ pc[t] = "stamp"
       /\ cache' = cache
       /\ cache_timestamp' = now
    \/ /\ fn[t] = "clear_cache"
       /\ pc[t] = "clear"
       /\ cache' = None
       /\ cache_timestamp' = cache_timestamp
    \/ /\ fn[t] = "clear_cache"
       /\ pc[t] = "clear2"
       /\ cache' = cache
       /\ cache_timestamp' = NoTime

\* C19: the snapshot and its timestamp change only when a successful fetch
\* replaces the snapshot as a whole or clear_cache resets it; no method
\* fetches while the snapshot it found is younger than the TTL, so
\* get_releases, get_latest_version, get_next_version, get_asset_hash and
\* is_valid_version leave a snapshot within its TTL as it is.
C19_ReadsLeaveCache ==
    /\ [](\A t \in Threads : pc[t] \in {"await", "stamp"} => ~ SawFresh(t))
    /\ [][(cache' # cache \/ cache_timestamp' # cache_timestamp) =>
             \E t \in Threads : CacheWrittenBy(t)]_vars

C19_Witness ==
    \E t \in Threads :
        /\ Done(t, "get_next_version")
        /\ SawFresh(t)
        /\ now > cache_timestamp
        /\ cache = seen[t].cache
        /\ cache_timestamp = seen[t].ts
        /\ result[t].kind = "str"


Consulting == {"get_releases", "get_next_version", "get_asset_hash",
               "get_changelog"}

\* C21: the snapshot is shared by the methods: whichever of get_releases,
\* get_asset_hash and get_changelog fetched successfully has stored the body
\* and the time of the fetch, and a later get_releases, get_next_version,
\* get_asset_hash or get_changelog that finds that snapshot younger than the
\* TTL (no clear_cache since) issues no release-list request, whichever
\* method stored it.
C21_SharedSnapshot ==
    \A t \in Threads :
        /\ (pc[t] = "use" /\ got[t].kind # "None") =>
              /\ cache = got[t]
              /\ cache_timestamp # NoTime
              /\ seen[t].now <= cache_timestamp
              /\ cache_timestamp <= now
              /\ stored_by = fn[t]
        /\ (pc[t] = "done" /\ op[t] \in Consulting /\ SawFresh(t)) =>
              /\ reqs[t] = 0
              /\ stored_by \in {"get_releases", "get_asset_hash",
                                "get_changelog"}

\* get_next_version answers from the snapshot that get_changelog fetched
C21_Witness ==
    \E t \in Threads :
        /\ Done(t, "get_next_version")
        /\ stored_by = "get_changelog"
        /\ SawFresh(t)
        /\ reqs[t] = 0
        /\ result[t].kind = "str"


\* no call is under way: every thread is idle or has its result
Quiescent == \A t \in Threads : pc[t] \in {"idle", "done"}

BeforeFirst(L, v, current) ==
    /\ v # current
    /\ \E i \in 1..Len(L) : L[i] = current
    /\ \E j \in 1..Len(L) :
          /\ L[j] = v
          /\ \A i \in 1..j : L[i] # current

\* C23: whatever the release list, repeated and unordered tags included, a
\* version that get_next_version returns for t, and one that the update
\* handler answers with, is a tag of the list in front of the first
\* occurrence of t and is not t.
C23_NeverSameVersion ==
    \A t \in Threads :
        /\ (Done(t, "get_next_version") /\ result[t].kind = "str") =>
              BeforeFirst(SnapshotTags, result[t].str, arg[t])
        /\ (Done(t, "get_release") /\ result[t].status = 200) =>
              /\ next_version[t].kind = "str"
              /\ BeforeFirst(SnapshotTags, next_version[t].str, arg[t])

\* the version asked for is in the list twice, after a newer-numbered tag
\* that follows an older-numbered one
C23_Witness ==
    \E t \in Threads :
        /\ Done(t, "get_next_version")
        /\ arg[t] = V100
        /\ SnapshotTags = <<V101, V102, V100, V100>>
        /\ result[t] = Str(V102)


\* there is no snapshot, or it is as old as the TTL or older
Stale ==
    \/ cache.kind = "None"
    \/ cache_timestamp = NoTime
    \/ now - cache_timestamp >= cache_ttl

\* a read has just stored the body upstream answered, with the time of now
Refreshed ==
    \E t \in Threads :
        /\ pc[t] = "use"
        /\ got[t].kind # "None"
        /\ cache = got[t]
        /\ cache_timestamp = now

\* C24: with reads that keep being issued and an upstream that answers one
\* of the requests successfully, a cache that is empty (also after
\* clear_cache) or past its TTL is in the end replaced by the body upstream
\* answered, stamped with the time of the fetch; a failed fetch leaves the
\* cache stale, so that the next read requests again.
C24_NeverStuck ==
    /\ Stale ~> Refreshed
    /\ [](\A t \in Threads :
            (pc[t] = "done" /\ failed[t] \in FailureKinds) => Stale)

\* a read replaces a snapshot that had reached the TTL
C24_Witness ==
    \E t \in Threads :
        /\ pc[t] = "use"
        /\ op[t] = "get_releases"
        /\ seen[t].had
        /\ seen[t].ts # NoTime
        /\ seen[t].now - seen[t].ts >= cache_ttl
        /\ reqs[t] = 1
        /\ cache = got[t]
        /\ cache_timestamp = now

=============================================================================
